---- MODULE Spec2Model ----
(***************************************************************************)
(* Key-cabinet access controller (TP_ARDUINO_CHAVES_DAVI_ANDRE.ino).       *)
(*                                                                         *)
(* The controller is one cooperative loop.  The model follows loop() with  *)
(* a program counter: "loop" (top of loop()), "entrada"                    *)
(* (verificarEntradaUsuario), "monitor" (one iteration of the slot loop of *)
(* monitorarPainelDeChaves), "alarme" (inside dispararAlarme, output       *)
(* high), "timeout" (verificarTimeoutSessao), and the positions of         *)
(* executarRotinaCadastro: "cadastro", "janela", "tiraDedo", "captura2",   *)
(* "fimCadastro".                                                          *)
(*                                                                         *)
(* Time.  The source stores millis() stamps (timerSessao, timerCheck,      *)
(* ultimoTempoDebounce, t, timerBio2) and only ever reads them in          *)
(* `millis() - stamp` compared with a constant.  unsigned long             *)
(* subtraction is exact across the 32-bit wrap, so the model keeps the     *)
(* differences themselves (desdeSessao = millis() - timerSessao, ...),     *)
(* saturated one past the constant they are compared with.                 *)
(*                                                                         *)
(* Sensor readings (key pins, button, card reader, fingerprint sensor,     *)
(* modem replies) are inputs, drawn with \E where the code reads them.     *)
(***************************************************************************)
EXTENDS Integers, Sequences, FiniteSets, TLC

(***************************************************************************)
(* Program constants                                                       *)
(***************************************************************************)
PINO_CHAVE_INICIO == 25
PINO_CHAVE_FIM == 26
INTERVALO_CHECK == 50
DELAY_DEBOUNCE == 50
TEMPO_LIMITE_SESSAO == 10000
JANELA_CADASTRO == 10000
JANELA_BIO2 == 5000
ULTIMO_ID_BIO == 127
EEPROM_VAZIA == 255
HIGH == 1
LOW == 0

(***************************************************************************)
(* Bounds of the model                                                     *)
(***************************************************************************)
\* enrollment excursions in one run (each appends at most one card or template)
MaxCadastros == 2

\* appends to the card ledger, whole or cut short, in one run of the ledger alone
MaxAnexos == 3

Indices == 0 .. (PINO_CHAVE_FIM - PINO_CHAVE_INICIO)
Pino(i) == PINO_CHAVE_INICIO + i

\* bytes of the EEPROM the model holds: the count and MaxCadastros records
EepromEnderecos == 0 .. (4 * MaxCadastros)

(***************************************************************************)
(* Strings are sequences of one-character strings.                         *)
(***************************************************************************)
DigitosHex == <<"0","1","2","3","4","5","6","7","8","9","a","b","c","d","e","f">>

Maiuscula(c) ==
  CASE c = "a" -> "A" [] c = "b" -> "B" [] c = "c" -> "C"
    [] c = "d" -> "D" [] c = "e" -> "E" [] c = "f" -> "F"
    [] OTHER -> c

\* String::toUpperCase
ToUpperCase(s) == [k \in 1 .. Len(s) |-> Maiuscula(s[k])]

\* String(valor, HEX): lower-case digits, no leading zero
StringHex(valor) ==
  IF valor < 16 THEN <<DigitosHex[valor + 1]>>
  ELSE <<DigitosHex[(valor \div 16) + 1], DigitosHex[(valor % 16) + 1]>>

\* the two concat calls of the readers: pad to two digits
ByteHex(valor) == (IF valor < 16 THEN <<"0">> ELSE <<>>) \o StringHex(valor)

RECURSIVE ConcatBytes(_, _)
ConcatBytes(bytes, n) ==
  IF n = 0 THEN <<>> ELSE ConcatBytes(bytes, n - 1) \o ByteHex(bytes[n])

\* String(n) for a non-negative int: decimal digits
RECURSIVE StringDec(_)
StringDec(n) ==
  IF n < 10 THEN <<DigitosHex[n + 1]>>
  ELSE StringDec(n \div 10) \o <<DigitosHex[(n % 10) + 1]>>

\* value of one hex digit as strtol(.., 16) reads it; -1 for any other character
ValorDigito(c) ==
  IF \E k \in 1 .. 16 : Maiuscula(DigitosHex[k]) = Maiuscula(c)
  THEN (CHOOSE k \in 1 .. 16 : Maiuscula(DigitosHex[k]) = Maiuscula(c)) - 1
  ELSE -1

\* String::substring(left, right): clamped to the string
Substring(s, left, right) ==
  IF left >= Len(s) THEN <<>>
  ELSE SubSeq(s, left + 1, IF right > Len(s) THEN Len(s) ELSE right)

\* (byte) strtol(s, NULL, 16) on a string of at most two characters
RECURSIVE Strtol16(_, _)
Strtol16(s, acc) ==
  IF s = <<>> \/ ValorDigito(Head(s)) < 0 THEN acc % 256
  ELSE Strtol16(Tail(s), acc * 16 + ValorDigito(Head(s)))

(***************************************************************************)
(* Card reader: lerSensorRFID and the same conversion in the enrollment.   *)
(***************************************************************************)
\* UIDs the reader delivers in the model: a 4-byte card and a 7-byte card
Cartoes == { <<4, 161, 178, 195>>, <<4, 90, 17, 200, 51, 2, 128>> }

TagDoUID(uid) == ToUpperCase(ConcatBytes(uid, Len(uid)))

TagsLeitor == {TagDoUID(u) : u \in Cartoes}

(***************************************************************************)
(* Credential store: verificarTagNaEEPROM / salvarTagEEPROM                *)
(***************************************************************************)
QtdTags(mem) == IF mem[0] = EEPROM_VAZIA THEN 0 ELSE mem[0]

TagArmazenada(mem, i) ==
  ToUpperCase(ConcatBytes([j \in 1 .. 4 |-> mem[1 + (i * 4) + (j - 1)]], 4))

RECURSIVE BuscaTag(_, _, _)
BuscaTag(mem, tagLida, i) ==
  IF i >= QtdTags(mem) THEN FALSE
  ELSE IF tagLida = TagArmazenada(mem, i) THEN TRUE
  ELSE BuscaTag(mem, tagLida, i + 1)

VerificarTagNaEEPROM(mem, tagLida) == BuscaTag(mem, tagLida, 0)

ByteDaTag(tagHex, i) == Strtol16(Substring(tagHex, i * 2, (i * 2) + 2), 0)

SalvarTagEEPROM(mem, tagHex) ==
  LET qtdTags == QtdTags(mem)
      enderecoBase == 1 + (qtdTags * 4)
  IN [a \in DOMAIN mem |->
        IF a = 0 THEN (qtdTags + 1) % 256
        ELSE IF a >= enderecoBase /\ a < enderecoBase + 4
             THEN ByteDaTag(tagHex, a - enderecoBase)
             ELSE mem[a]]

\* EscritasTag that writes the count byte before the record bytes
EscritasTag_ContagemPrimeiro(mem, tagHex) ==
  LET qtdTags == QtdTags(mem)
      enderecoBase == 1 + (qtdTags * 4)
  IN [k \in 1 .. 5 |->
        IF k = 1
        THEN [endereco |-> 0, valor |-> (qtdTags + 1) % 256]
        ELSE [endereco |-> enderecoBase + (k - 2), valor |-> ByteDaTag(tagHex, k - 2)]]

\* lines 478-485: the EEPROM.write calls of salvarTagEEPROM in program order,
\* the four record bytes and then the count
EscritasTag(mem, tagHex) ==
  LET qtdTags == QtdTags(mem)
      enderecoBase == 1 + (qtdTags * 4)
  IN [k \in 1 .. 5 |->
        IF k <= 4
        THEN [endereco |-> enderecoBase + (k - 1), valor |-> ByteDaTag(tagHex, k - 1)]
        ELSE [endereco |-> 0, valor |-> (qtdTags + 1) % 256]]

\* the memory once the first n of the writes have been done
RECURSIVE AposEscritas(_, _, _)
AposEscritas(mem, escritas, n) ==
  IF n = 0 THEN mem
  ELSE LET m == AposEscritas(mem, escritas, n - 1)
           e == escritas[n]
       IN IF e.endereco \in DOMAIN m THEN [m EXCEPT ![e.endereco] = e.valor] ELSE m

(***************************************************************************)
(* Fingerprint sensor, as far as the controller reads it                   *)
(***************************************************************************)
\* finger.loadModel(i): succeeds exactly on an occupied index
LoadModel(tpl, i) == IF i \in tpl THEN "OK" ELSE "ERRO"

\* the free-slot loop of executarRotinaCadastro over the indices de .. ate, in
\* ascending order: the index at which the loop breaks, -1 when every load
\* succeeds.  The range is walked in two halves, lower half first, to keep the
\* evaluation shallow; the probes and their order are those of the for loop.
RECURSIVE BuscaLivre(_, _, _)
BuscaLivre(tpl, de, ate) ==
  IF de > ate THEN -1
  ELSE IF de = ate THEN (IF LoadModel(tpl, de) # "OK" THEN de ELSE -1)
  ELSE LET meio == (de + ate) \div 2
           antes == BuscaLivre(tpl, de, meio)
       IN IF antes # -1 THEN antes ELSE BuscaLivre(tpl, meio + 1, ate)

\* a search that stops one index short of the last
BuscarIdLivre_SemUltimo(tpl) == BuscaLivre(tpl, 1, ULTIMO_ID_BIO - 1)

\* lines 581-587: the search over 1 .. 127
BuscarIdLivre(tpl) == BuscaLivre(tpl, 1, ULTIMO_ID_BIO)

\* template ids a search reports in the model: the lowest and the highest stored
IdsBusca(tpl) ==
  {i \in tpl : (\A j \in tpl : i <= j) \/ (\A j \in tpl : i >= j)}

\* replies of getImage / image2Tz(1) / fingerSearch to one lerSensorBiometrico
RespostasBio(tpl) ==
  { [imagem |-> "NOFINGER", conv |-> "OK", busca |-> "NOTFOUND", fingerID |-> 0],
    [imagem |-> "ERRO", conv |-> "OK", busca |-> "NOTFOUND", fingerID |-> 0],
    [imagem |-> "OK", conv |-> "ERRO", busca |-> "NOTFOUND", fingerID |-> 0],
    [imagem |-> "OK", conv |-> "OK", busca |-> "NOTFOUND", fingerID |-> 0],
    [imagem |-> "OK", conv |-> "OK", busca |-> "ERRO", fingerID |-> 0] }
  \cup { [imagem |-> "OK", conv |-> "OK", busca |-> "OK", fingerID |-> i] :
           i \in IdsBusca(tpl) }

LerSensorBiometrico(r) ==
  IF r.imagem # "OK" THEN -1
  ELSE IF r.conv # "OK" THEN -2
  ELSE IF r.busca = "OK" THEN r.fingerID
  ELSE -2

\* lerSensorRFID; the empty uid stands for "no new card"
LerSensorRFID(uid) == IF uid = <<>> THEN <<>> ELSE TagDoUID(uid)

(***************************************************************************)
(* Telemetry: what one enviarDadosFirebase costs in time.  `espera` is the *)
(* time spent in the CONNECT poll loop.                                    *)
(***************************************************************************)
RespostasWifi ==
  { [conectado |-> TRUE, espera |-> 650], [conectado |-> FALSE, espera |-> 5850] }

DuracaoEnvio(w) == 100 + 50 + w.espera + (IF w.conectado THEN 200 ELSE 0)

(***************************************************************************)
(* Telemetry: the text enviarDadosFirebase sends.  The literals of the     *)
(* source, character by character.                                         *)
(***************************************************************************)
\* line 29
FIREBASE_HOST ==
  << "s", "e", "g", "u", "r", "a", "n", "c", "a", "-", "d", "e", "-", "c", "h", "a", "v",
     "e", "s", "-", "d", "e", "f", "a", "u", "l", "t", "-", "r", "t", "d", "b", ".", "f",
     "i", "r", "e", "b", "a", "s", "e", "i", "o", ".", "c", "o", "m" >>

\* line 300
JsonRetirada ==
  << "{", "\"", "e", "v", "e", "n", "t", "o", "\"", ":", "\"", "R", "E", "T", "I", "R",
     "A", "D", "A", "_", "A", "U", "T", "O", "R", "I", "Z", "A", "D", "A", "\"", "," >>

\* line 312
JsonDevolucao ==
  << "{", "\"", "e", "v", "e", "n", "t", "o", "\"", ":", "\"", "D", "E", "V", "O", "L",
     "U", "C", "A", "O", "\"", "," >>

\* line 323
JsonAlarme ==
  << "{", "\"", "e", "v", "e", "n", "t", "o", "\"", ":", "\"", "A", "L", "A", "R", "M",
     "E", "_", "R", "O", "U", "B", "O", "\"", "," >>

\* lines 301, 313, 324
JsonPino ==
  << "\"", "p", "i", "n", "o", "\"", ":" >>

\* line 302
JsonIdUsuario ==
  << "\"", "i", "d", "_", "u", "s", "u", "a", "r", "i", "o", "\"", ":", "\"" >>

\* line 303
JsonTipoAuth ==
  << "\"", "t", "i", "p", "o", "_", "a", "u", "t", "h", "\"", ":", "\"" >>

\* line 325
JsonMensagem ==
  << "\"", "m", "e", "n", "s", "a", "g", "e", "m", "\"", ":", "\"", "R", "e", "t", "i",
     "r", "a", "d", "a", " ", "I", "l", "e", "g", "a", "l", "\"", "}" >>

\* line 356
HeaderPost ==
  << "P", "O", "S", "T", " ", "/", "l", "o", "g", "s", ".", "j", "s", "o", "n", " ", "H",
     "T", "T", "P", "/", "1", ".", "1", "\r", "\n" >>

\* line 357
HeaderHost ==
  << "H", "o", "s", "t", ":", " " >>

\* line 358
HeaderContentType ==
  << "C", "o", "n", "t", "e", "n", "t", "-", "T", "y", "p", "e", ":", " ", "a", "p", "p",
     "l", "i", "c", "a", "t", "i", "o", "n", "/", "j", "s", "o", "n", "\r", "\n" >>

\* line 359
HeaderContentLength ==
  << "C", "o", "n", "t", "e", "n", "t", "-", "L", "e", "n", "g", "t", "h", ":", " " >>

\* line 202
TextoBiometria ==
  << "B", "i", "o", "m", "e", "t", "r", "i", "a" >>

\* line 216
TextoRFID ==
  << "R", "F", "I", "D" >>

CRLF == << "\r", "\n" >>

\* the kind of credential as autorizarSessao received it
TextoTipo(tipo) ==
  CASE tipo = "Biometria" -> TextoBiometria
    [] tipo = "RFID" -> TextoRFID
    [] OTHER -> <<>>

\* lines 300-303, 312-313, 323-325: the JSON text of an event
JsonDoEvento(ev) ==
  CASE ev.evento = "RETIRADA_AUTORIZADA" ->
         JsonRetirada \o JsonPino \o StringDec(ev.pino) \o << "," >>
           \o JsonIdUsuario \o ev.id_usuario \o << "\"", "," >>
           \o JsonTipoAuth \o TextoTipo(ev.tipo_auth) \o << "\"", "}" >>
    [] ev.evento = "DEVOLUCAO" ->
         JsonDevolucao \o JsonPino \o StringDec(ev.pino) \o << "}" >>
    [] OTHER ->
         JsonAlarme \o JsonPino \o StringDec(ev.pino) \o << "," >> \o JsonMensagem

\* lines 356-359: the request headers for a body jsonDados
Headers(jsonDados) ==
  HeaderPost \o HeaderHost \o FIREBASE_HOST \o CRLF \o HeaderContentType
    \o HeaderContentLength \o StringDec(Len(jsonDados)) \o CRLF \o CRLF

\* TamanhoAnunciado that announces the body alone
TamanhoAnunciado_SoCorpo(headers, jsonDados) == Len(jsonDados)

\* line 362: the number printed after AT+CIPSEND=
TamanhoAnunciado(headers, jsonDados) == Len(headers) + Len(jsonDados)

\* what an operation puts on the wire for its event: the number AT+CIPSEND
\* announces, the bytes print(headers) and print(jsonDados) write
BytesWifi(op, ev) ==
  LET jsonDados == JsonDoEvento(ev)
      headers == Headers(jsonDados)
  IN CASE op = "AT+CIPSEND" -> TamanhoAnunciado(headers, jsonDados)
       [] op = "headers" -> Len(headers)
       [] op = "json" -> Len(jsonDados)
       [] OTHER -> 0

\* one operation of enviarDadosFirebase on SerialWifi, for the event it sends,
\* with the byte count it announces or writes
OpWifi(op, ev) == [op |-> op, ev |-> ev, bytes |-> BytesWifi(op, ev)]

\* enviarDadosFirebase that opens the connection again when the first attempt
\* saw no CONNECT
EnviarDadosFirebase_Insiste(ev, w) ==
  << OpWifi("drena", ev), OpWifi("AT+CIPCLOSE", ev), OpWifi("AT+CIPSSLSIZE=4096", ev),
     OpWifi("AT+CIPSTART", ev) >>
  \o (IF w.conectado
      THEN << OpWifi("CONNECT", ev), OpWifi("AT+CIPSEND", ev), OpWifi("headers", ev),
              OpWifi("json", ev) >>
      ELSE << OpWifi("SEM_CONNECT", ev), OpWifi("AT+CIPSTART", ev) >>)

\* lines 338-371: what enviarDadosFirebase does on SerialWifi, in order: the
\* inbound bytes drained, the three commands, the outcome of the CONNECT poll
\* and, only when CONNECT was seen, the send command, the headers and the body
EnviarDadosFirebase(ev, w) ==
  << OpWifi("drena", ev), OpWifi("AT+CIPCLOSE", ev), OpWifi("AT+CIPSSLSIZE=4096", ev),
     OpWifi("AT+CIPSTART", ev) >>
  \o (IF w.conectado
      THEN << OpWifi("CONNECT", ev), OpWifi("AT+CIPSEND", ev), OpWifi("headers", ev),
              OpWifi("json", ev) >>
      ELSE << OpWifi("SEM_CONNECT", ev) >>)

(***************************************************************************)
(* State                                                                   *)
(***************************************************************************)
VARIABLES
  pc,                    \* position in loop()
  index,                 \* slot index of monitorarPainelDeChaves
  leituraAtual,          \* last digitalRead of a key pin (TRUE = HIGH = absent)
  estadoAnteriorChaves,  \* snapshot of the key pins
  alarme,                \* level of PINO_ALARME
  sessaoAberta, desdeSessao, idUsuarioAtual, tipoUsuarioAtual,
  desdeCheck,            \* millis() - timerCheck
  estadoBotaoCad, ultimoEstadoBotaoCad,
  desdeDebounce,         \* millis() - ultimoTempoDebounce
  modoCadastroAtivo,
  idBio, idTag,          \* locals of verificarEntradaUsuario
  eventos,               \* log lines / telemetry events of the current loop() pass
  serialWifi,            \* operations on SerialWifi in the current loop() pass
  leiturasSetup,         \* levels setup() read from the key pins, of the slots not polled yet
  eeprom,                \* the card ledger
  templates,             \* occupied template indices of the sensor
  desdeJanela,           \* millis() - t in executarRotinaCadastro
  desdeBio2,             \* millis() - timerBio2
  idNovo,                \* candidate index of the enrollment
  msgCadastro,           \* last text the enrollment put on the display
  opsBio,                \* sensor operations of the enrollment, repeats merged
  cadastros,             \* enrollment excursions started
  anexadas               \* tags handed to salvarTagEEPROM so far

vars ==
  << pc, index, leituraAtual, estadoAnteriorChaves, alarme, sessaoAberta,
     desdeSessao, idUsuarioAtual, tipoUsuarioAtual, desdeCheck, estadoBotaoCad,
     ultimoEstadoBotaoCad, desdeDebounce, modoCadastroAtivo, idBio, idTag,
     eventos, serialWifi, leiturasSetup, eeprom, templates, desdeJanela, desdeBio2,
     idNovo,
     msgCadastro, opsBio, cadastros, anexadas >>

sessaoVars == <<sessaoAberta, desdeSessao, idUsuarioAtual, tipoUsuarioAtual>>
botaoVars == <<estadoBotaoCad, ultimoEstadoBotaoCad, modoCadastroAtivo, cadastros>>
chavesVars == <<index, leituraAtual, estadoAnteriorChaves, alarme>>
entradaVars == <<idBio, idTag>>
memoriaVars == <<eeprom, templates, anexadas>>
cadastroVars == <<desdeJanela, desdeBio2, idNovo, msgCadastro, opsBio>>

\* occupancy patterns of the template store at power-up: empty, a prefix, a hole
TemplatesIniciais == { {}, 1 .. 5, {1, 2, 4} }

Ev(evento, pino, id, tipo) ==
  [evento |-> evento, pino |-> pino, id_usuario |-> id, tipo_auth |-> tipo]

\* elapsed time d added to a difference compared with lim
Dep(desde, d, lim) == IF desde + d > lim THEN lim + 1 ELSE desde + d

\* d milliseconds pass and no stamp is rewritten
Passa(d) ==
  /\ desdeSessao' = (IF sessaoAberta THEN Dep(desdeSessao, d, TEMPO_LIMITE_SESSAO) ELSE 0)
  /\ desdeCheck' = Dep(desdeCheck, d, INTERVALO_CHECK)
  /\ desdeDebounce' = Dep(desdeDebounce, d, DELAY_DEBOUNCE)

\* the snapshot left as the zero-initialised global of line 89, whatever the
\* pins read
SnapshotInicial_Zerado(leituras) == [i \in Indices |-> FALSE]

\* setup(): estadoAnteriorChaves[index] = digitalRead(i) for every key pin
SnapshotInicial(leituras) == [i \in Indices |-> leituras[i]]

\* state when setup() returns: it takes more than 4 s, so timerCheck = 0 and
\* ultimoTempoDebounce = 0 are already older than their intervals
Init ==
  /\ pc = "loop"
  /\ index = 0
  /\ leituraAtual = FALSE
  /\ leiturasSetup \in [Indices -> BOOLEAN]
  /\ estadoAnteriorChaves = SnapshotInicial(leiturasSetup)
  /\ alarme = FALSE
  /\ sessaoAberta = FALSE
  /\ desdeSessao = 0
  /\ idUsuarioAtual = <<>>
  /\ tipoUsuarioAtual = ""
  /\ desdeCheck = INTERVALO_CHECK + 1
  /\ estadoBotaoCad = 0
  /\ ultimoEstadoBotaoCad = HIGH
  /\ desdeDebounce = DELAY_DEBOUNCE + 1
  /\ modoCadastroAtivo = FALSE
  /\ idBio = -1
  /\ idTag = <<>>
  /\ eventos = <<>>
  /\ serialWifi = <<>>
  /\ eeprom = [a \in EepromEnderecos |-> EEPROM_VAZIA]
  /\ templates \in TemplatesIniciais
  /\ desdeJanela = 0
  /\ desdeBio2 = 0
  /\ idNovo = -1
  /\ msgCadastro = ""
  /\ opsBio = <<>>
  /\ cadastros = 0
  /\ anexadas = {}

(***************************************************************************)
(* loop(): lerBotaoCadastro and the choice of mode                         *)
(***************************************************************************)
\* times that pass between two passes of loop()
PassosLoop == {0, 1000}

\* AceitaLeitura without the wait of line 538: a reading that differs from the
\* accepted level is accepted at once
AceitaLeitura_SemDebounce(leitura, ultimo, estado, desde) == leitura # estado

\* lerBotaoCadastro: does this reading become the accepted level?
AceitaLeitura(leitura, ultimo, estado, desde) ==
  LET deb == IF leitura # ultimo THEN 0 ELSE desde
  IN deb > DELAY_DEBOUNCE /\ leitura # estado

Loop(leitura, d) ==
  /\ pc = "loop"
  /\ LET desde == Dep(desdeDebounce, d, DELAY_DEBOUNCE)
         aceita == AceitaLeitura(leitura, ultimoEstadoBotaoCad, estadoBotaoCad, desde)
         dispara == aceita /\ leitura = LOW
         modo == modoCadastroAtivo \/ dispara
     IN /\ dispara => cadastros < MaxCadastros
        /\ desdeDebounce' = (IF leitura # ultimoEstadoBotaoCad THEN 0 ELSE desde)
        /\ estadoBotaoCad' = (IF aceita THEN leitura ELSE estadoBotaoCad)
        /\ ultimoEstadoBotaoCad' = leitura
        /\ modoCadastroAtivo' = modo
        /\ cadastros' = (IF dispara THEN cadastros + 1 ELSE cadastros)
        /\ pc' = (IF modo THEN "cadastro"
                  ELSE IF Dep(desdeCheck, d, INTERVALO_CHECK) > INTERVALO_CHECK
                       THEN "entrada"
                       ELSE "loop")
  /\ desdeCheck' = Dep(desdeCheck, d, INTERVALO_CHECK)
  /\ desdeSessao' = (IF sessaoAberta THEN Dep(desdeSessao, d, TEMPO_LIMITE_SESSAO) ELSE 0)
  /\ eventos' = <<>>
  /\ serialWifi' = <<>>
  /\ UNCHANGED leiturasSetup
  /\ idBio' = -1
  /\ idTag' = <<>>
  /\ UNCHANGED <<sessaoAberta, idUsuarioAtual, tipoUsuarioAtual>>
  /\ UNCHANGED <<chavesVars, memoriaVars, cadastroVars>>

(***************************************************************************)
(* verificarEntradaUsuario / autorizarSessao / negacaoAcesso               *)
(***************************************************************************)
\* IgnoraEntrada without the early return of line 195
IgnoraEntrada_Nunca(sessao) == FALSE

\* line 195: an open session makes verificarEntradaUsuario return at once
IgnoraEntrada(sessao) == sessao

\* DecisaoEntrada that authorizes a card without asking the ledger
DecisaoEntrada_SemLedger(bio, tag, mem) ==
  IF bio >= 0 THEN "AUTORIZA_BIO"
  ELSE IF bio = -2 THEN "NEGA_BIO"
  ELSE IF tag # <<>> THEN "AUTORIZA_RFID"
  ELSE "NADA"

\* what verificarEntradaUsuario does with the biometric result and, when the
\* biometric sensor saw nothing, with the tag the card reader returned
DecisaoEntrada(bio, tag, mem) ==
  IF bio >= 0 THEN "AUTORIZA_BIO"
  ELSE IF bio = -2 THEN "NEGA_BIO"
  ELSE IF tag # <<>>
       THEN (IF VerificarTagNaEEPROM(mem, tag) THEN "AUTORIZA_RFID" ELSE "NEGA_RFID")
       ELSE "NADA"

\* LeCartao that polls the card reader whatever the biometric sensor returned
LeCartao_Sempre(bio) == TRUE

\* lines 200-212: lerSensorRFID is called only when lerSensorBiometrico
\* returned -1; both other outcomes return before it
LeCartao(bio) == bio = -1

VerificarEntradaUsuario(r, uid) ==
  /\ pc = "entrada"
  /\ pc' = "monitor"
  /\ index' = 0
  /\ IF IgnoraEntrada(sessaoAberta)
     THEN /\ Passa(0)
          /\ UNCHANGED <<sessaoAberta, idUsuarioAtual, tipoUsuarioAtual, idBio, idTag, eventos>>
     ELSE LET bio == LerSensorBiometrico(r)
              tag == IF LeCartao(bio) THEN LerSensorRFID(uid) ELSE <<>>
              dec == DecisaoEntrada(bio, tag, eeprom)
          IN /\ idBio' = bio
             /\ idTag' = tag
             /\ CASE dec = "AUTORIZA_BIO" ->
                       /\ sessaoAberta' = TRUE
                       /\ idUsuarioAtual' = StringDec(bio)
                       /\ tipoUsuarioAtual' = "Biometria"
                       /\ eventos' = Append(eventos, Ev("SESSAO_ABERTA", 0, StringDec(bio), "Biometria"))
                       /\ desdeSessao' = 0
                       /\ UNCHANGED <<desdeCheck, desdeDebounce>>
                  [] dec = "AUTORIZA_RFID" ->
                       /\ sessaoAberta' = TRUE
                       /\ idUsuarioAtual' = tag
                       /\ tipoUsuarioAtual' = "RFID"
                       /\ eventos' = Append(eventos, Ev("SESSAO_ABERTA", 0, tag, "RFID"))
                       /\ desdeSessao' = 0
                       /\ UNCHANGED <<desdeCheck, desdeDebounce>>
                  [] dec = "NEGA_BIO" ->
                       /\ eventos' = Append(eventos, Ev("ACESSO_NEGADO", 0, <<>>, "Biometria"))
                       /\ Passa(2000)
                       /\ UNCHANGED <<sessaoAberta, idUsuarioAtual, tipoUsuarioAtual>>
                  [] dec = "NEGA_RFID" ->
                       /\ eventos' = Append(eventos, Ev("ACESSO_NEGADO", 0, tag, "RFID"))
                       /\ Passa(2000)
                       /\ UNCHANGED <<sessaoAberta, idUsuarioAtual, tipoUsuarioAtual>>
                  [] OTHER ->
                       /\ Passa(0)
                       /\ UNCHANGED <<sessaoAberta, idUsuarioAtual, tipoUsuarioAtual, eventos>>
  /\ UNCHANGED <<leituraAtual, estadoAnteriorChaves, alarme>>
  /\ UNCHANGED <<botaoVars, memoriaVars, cadastroVars>>
  /\ UNCHANGED <<serialWifi, leiturasSetup>>

(***************************************************************************)
(* monitorarPainelDeChaves, one slot per step                              *)
(***************************************************************************)
\* Classifica with the session test of line 266 inverted
Classifica_SessaoInvertida(leitura, anterior, sessao) ==
  IF leitura # anterior
  THEN (IF leitura
        THEN (IF ~sessao THEN "RETIRADA" ELSE "ALARME")
        ELSE "DEVOLUCAO")
  ELSE "NADA"

\* Classifica with the pin polarity of line 264 inverted
Classifica_PolaridadeInvertida(leitura, anterior, sessao) ==
  IF leitura # anterior
  THEN (IF ~leitura
        THEN (IF sessao THEN "RETIRADA" ELSE "ALARME")
        ELSE "DEVOLUCAO")
  ELSE "NADA"

\* Classifica that takes every removal for a retrieval, session or not
Classifica_SemFecharSessao(leitura, anterior, sessao) ==
  IF leitura # anterior
  THEN (IF leitura THEN "RETIRADA" ELSE "DEVOLUCAO")
  ELSE "NADA"

\* lines 262-285: what a reading of a slot is taken for
Classifica(leitura, anterior, sessao) ==
  IF leitura # anterior
  THEN (IF leitura
        THEN (IF sessao THEN "RETIRADA" ELSE "ALARME")
        ELSE "DEVOLUCAO")
  ELSE "NADA"

\* AtualizaEstado that forgets the assignment of line 286
AtualizaEstado_Esquece(anterior, i, leitura) == anterior

\* line 286: the snapshot takes the reading
AtualizaEstado(anterior, i, leitura) == [anterior EXCEPT ![i] = leitura]

\* index++ and the loop condition pino <= PINO_CHAVE_FIM
ProximoSlot ==
  /\ IF Pino(index) + 1 <= PINO_CHAVE_FIM
     THEN /\ index' = index + 1
          /\ pc' = "monitor"
     ELSE /\ index' = 0
          /\ pc' = "timeout"
  \* the slot has been polled: its reading of setup() is history no more
  /\ leiturasSetup' = [j \in DOMAIN leiturasSetup \ {index} |-> leiturasSetup[j]]

MonitorSlot(leitura, w) ==
  /\ pc = "monitor"
  /\ leituraAtual' = leitura
  /\ LET classe == Classifica(leitura, estadoAnteriorChaves[index], sessaoAberta)
     IN CASE classe = "RETIRADA" ->
               \* registrarRetirada, then the session is closed
               /\ eventos' = Append(eventos,
                    Ev("RETIRADA_AUTORIZADA", Pino(index), idUsuarioAtual, tipoUsuarioAtual))
               /\ serialWifi' = serialWifi \o EnviarDadosFirebase(
                    Ev("RETIRADA_AUTORIZADA", Pino(index), idUsuarioAtual, tipoUsuarioAtual), w)
               /\ sessaoAberta' = FALSE
               /\ idUsuarioAtual' = <<>>
               /\ desdeSessao' = 0
               /\ desdeCheck' = Dep(desdeCheck, DuracaoEnvio(w), INTERVALO_CHECK)
               /\ desdeDebounce' = Dep(desdeDebounce, DuracaoEnvio(w), DELAY_DEBOUNCE)
               /\ estadoAnteriorChaves' = AtualizaEstado(estadoAnteriorChaves, index, leitura)
               /\ ProximoSlot
               /\ UNCHANGED <<tipoUsuarioAtual, alarme>>
          [] classe = "DEVOLUCAO" ->
               /\ eventos' = Append(eventos, Ev("DEVOLUCAO", Pino(index), <<>>, ""))
               /\ serialWifi' = serialWifi \o
                    EnviarDadosFirebase(Ev("DEVOLUCAO", Pino(index), <<>>, ""), w)
               /\ Passa(DuracaoEnvio(w))
               /\ estadoAnteriorChaves' = AtualizaEstado(estadoAnteriorChaves, index, leitura)
               /\ ProximoSlot
               /\ UNCHANGED <<sessaoAberta, idUsuarioAtual, tipoUsuarioAtual, alarme>>
          [] classe = "ALARME" ->
               \* dispararAlarme up to digitalWrite(PINO_ALARME, HIGH)
               /\ eventos' = Append(eventos, Ev("ALARME_ROUBO", Pino(index), <<>>, ""))
               /\ alarme' = TRUE
               /\ pc' = "alarme"
               /\ Passa(0)
               /\ UNCHANGED <<index, estadoAnteriorChaves, sessaoAberta, idUsuarioAtual, tipoUsuarioAtual>>
               /\ UNCHANGED <<serialWifi, leiturasSetup>>
          [] OTHER ->
               /\ ProximoSlot
               /\ Passa(0)
               /\ UNCHANGED <<eventos, estadoAnteriorChaves, alarme, sessaoAberta, idUsuarioAtual, tipoUsuarioAtual>>
               /\ UNCHANGED serialWifi
  /\ idBio' = -1
  /\ idTag' = <<>>
  /\ UNCHANGED <<botaoVars, memoriaVars, cadastroVars>>

\* AlarmeFim that takes the theft for handled only when the send connected,
\* and otherwise leaves the snapshot for the next poll to report it again
AlarmeFim_SoSeConectou(w) ==
  /\ pc = "alarme"
  /\ Passa(DuracaoEnvio(w) + 3000)
  /\ serialWifi' = serialWifi \o EnviarDadosFirebase(eventos[Len(eventos)], w)
  /\ alarme' = FALSE
  /\ estadoAnteriorChaves' =
       (IF w.conectado THEN AtualizaEstado(estadoAnteriorChaves, index, leituraAtual)
        ELSE estadoAnteriorChaves)
  /\ ProximoSlot
  /\ UNCHANGED <<leituraAtual, eventos, sessaoAberta, idUsuarioAtual, tipoUsuarioAtual>>
  /\ UNCHANGED <<botaoVars, entradaVars, memoriaVars, cadastroVars>>

\* AlarmeFim that leaves the alarm output high when the send did not connect
AlarmeFim_DeixaLigado(w) ==
  /\ pc = "alarme"
  /\ Passa(DuracaoEnvio(w) + 3000)
  /\ serialWifi' = serialWifi \o EnviarDadosFirebase(eventos[Len(eventos)], w)
  /\ alarme' = ~w.conectado
  /\ estadoAnteriorChaves' = AtualizaEstado(estadoAnteriorChaves, index, leituraAtual)
  /\ ProximoSlot
  /\ UNCHANGED <<leituraAtual, eventos, sessaoAberta, idUsuarioAtual, tipoUsuarioAtual>>
  /\ UNCHANGED <<botaoVars, entradaVars, memoriaVars, cadastroVars>>

\* the rest of dispararAlarme (send, delay(3000), output low) and line 286
AlarmeFim(w) ==
  /\ pc = "alarme"
  /\ Passa(DuracaoEnvio(w) + 3000)
  /\ serialWifi' = serialWifi \o EnviarDadosFirebase(eventos[Len(eventos)], w)
  /\ alarme' = FALSE
  /\ estadoAnteriorChaves' = AtualizaEstado(estadoAnteriorChaves, index, leituraAtual)
  /\ ProximoSlot
  /\ UNCHANGED <<leituraAtual, eventos, sessaoAberta, idUsuarioAtual, tipoUsuarioAtual>>
  /\ UNCHANGED <<botaoVars, entradaVars, memoriaVars, cadastroVars>>

(***************************************************************************)
(* verificarTimeoutSessao, then timerCheck = millis()                      *)
(***************************************************************************)
Expirou(sessao, desde) == sessao /\ desde > TEMPO_LIMITE_SESSAO

VerificarTimeoutSessao ==
  /\ pc = "timeout"
  /\ pc' = "loop"
  /\ IF Expirou(sessaoAberta, desdeSessao)
     THEN /\ sessaoAberta' = FALSE
          /\ idUsuarioAtual' = <<>>
          /\ desdeSessao' = 0
          /\ eventos' = Append(eventos, Ev("SESSAO_EXPIROU", 0, <<>>, ""))
     ELSE UNCHANGED <<sessaoAberta, idUsuarioAtual, desdeSessao, eventos>>
  /\ desdeCheck' = 0
  /\ leituraAtual' = FALSE
  /\ UNCHANGED <<tipoUsuarioAtual, desdeDebounce>>
  /\ UNCHANGED <<index, estadoAnteriorChaves, alarme>>
  /\ UNCHANGED <<botaoVars, entradaVars, memoriaVars, cadastroVars>>
  /\ UNCHANGED <<serialWifi, leiturasSetup>>

(***************************************************************************)
(* executarRotinaCadastro                                                  *)
(***************************************************************************)
\* lengths of a stretch of polling in which the sensors keep answering the same
Esperas == {5000}

\* replies of getImage while enrolling.  Any other reply (an image or packet
\* error) takes the same branch as "NOFINGER" where the code compares with
\* FINGERPRINT_OK and the same as "OK" where it compares with FINGERPRINT_NOFINGER
RespostasImagem == {"OK", "NOFINGER"}

\* replies of image2Tz(2), createModel and storeModel
RespostasGravacao ==
  [conv2 : {"OK", "ERRO"}, cria : {"OK", "ERRO"}, grava : {"OK", "ERRO"}]

\* a sensor operation is added to the log; a repeat of the last one is merged
Reg(ops, op) == IF ops # <<>> /\ ops[Len(ops)] = op THEN ops ELSE Append(ops, op)

\* leaving executarRotinaCadastro with text `msg` on the display after `d` ms
SaiCadastro(msg, d) ==
  /\ msgCadastro' = msg
  /\ pc' = "fimCadastro"
  /\ Passa(d)

\* IniciaCadastro that closes an open session when the excursion begins
IniciaCadastro_FechaSessao ==
  /\ pc = "cadastro"
  /\ pc' = "janela"
  /\ desdeJanela' = 0
  /\ desdeBio2' = 0
  /\ idNovo' = -1
  /\ msgCadastro' = "1-BIO  2-RFID"
  /\ opsBio' = <<>>
  /\ sessaoAberta' = FALSE
  /\ idUsuarioAtual' = <<>>
  /\ desdeSessao' = 0
  /\ desdeCheck' = Dep(desdeCheck, 1000, INTERVALO_CHECK)
  /\ desdeDebounce' = Dep(desdeDebounce, 1000, DELAY_DEBOUNCE)
  /\ UNCHANGED <<tipoUsuarioAtual, eventos, serialWifi, leiturasSetup>>
  /\ UNCHANGED <<chavesVars, botaoVars, entradaVars, memoriaVars>>

\* lines 551-555: the banner, delay(1000), t = millis()
IniciaCadastro ==
  /\ pc = "cadastro"
  /\ pc' = "janela"
  /\ desdeJanela' = 0
  /\ desdeBio2' = 0
  /\ idNovo' = -1
  /\ msgCadastro' = "1-BIO  2-RFID"
  /\ opsBio' = <<>>
  /\ Passa(1000)
  /\ UNCHANGED <<sessaoAberta, idUsuarioAtual, tipoUsuarioAtual, eventos>>
  /\ UNCHANGED <<chavesVars, botaoVars, entradaVars, memoriaVars>>
  /\ UNCHANGED <<serialWifi, leiturasSetup>>

\* PrimeiraCaptura that converts the image before it searches a free index
PrimeiraCaptura_BuscaDepois(tpl, conv1) ==
  LET livre == BuscarIdLivre(tpl)
  IN IF conv1 # "OK"
     THEN [id |-> livre, msg |-> "Erro Leitura 1", ops |-> <<"image2Tz1:ERRO">>]
     ELSE IF livre = -1
          THEN [id |-> -1, msg |-> "Memoria Cheia", ops |-> <<"image2Tz1:OK", "loadModel">>]
          ELSE [id |-> livre, msg |-> "Tire o dedo", ops |-> <<"image2Tz1:OK", "loadModel">>]

\* lines 581-605 after a first image: the free-slot search and image2Tz(1)
PrimeiraCaptura(tpl, conv1) ==
  LET livre == BuscarIdLivre(tpl)
  IN IF livre = -1 THEN [id |-> -1, msg |-> "Memoria Cheia", ops |-> <<"loadModel">>]
     ELSE IF conv1 # "OK"
          THEN [id |-> livre, msg |-> "Erro Leitura 1", ops |-> <<"loadModel", "image2Tz1:ERRO">>]
          ELSE [id |-> livre, msg |-> "Tire o dedo", ops |-> <<"loadModel", "image2Tz1:OK">>]

\* one stretch of the 10 s window loop (lines 558-661)
Janela(uid, img, conv1, d) ==
  /\ pc = "janela"
  /\ IF ~(desdeJanela < JANELA_CADASTRO)
     THEN /\ SaiCadastro("Tempo Esgotado", 1000)
          /\ UNCHANGED <<desdeJanela, idNovo, opsBio, memoriaVars>>
     ELSE IF uid # <<>>
     THEN /\ eeprom' = SalvarTagEEPROM(eeprom, TagDoUID(uid))
          /\ anexadas' = anexadas \cup {TagDoUID(uid)}
          /\ SaiCadastro("RFID Cadastrado!", 2000)
          /\ UNCHANGED <<desdeJanela, idNovo, opsBio, templates>>
     ELSE IF img = "OK"
     THEN LET c == PrimeiraCaptura(templates, conv1)
          IN /\ idNovo' = c.id
             /\ opsBio' = Reg(opsBio, "getImage:OK") \o c.ops
             /\ IF c.msg = "Tire o dedo"
                THEN /\ msgCadastro' = c.msg
                     /\ pc' = "tiraDedo"
                     /\ Passa(1000)
                ELSE SaiCadastro(c.msg, 2000)
             /\ UNCHANGED <<desdeJanela, memoriaVars>>
     ELSE /\ opsBio' = Reg(opsBio, "getImage:NOFINGER")
          /\ desdeJanela' = Dep(desdeJanela, d, JANELA_CADASTRO - 1)
          /\ Passa(d)
          /\ UNCHANGED <<pc, idNovo, msgCadastro, memoriaVars>>
  /\ UNCHANGED <<desdeBio2, sessaoAberta, idUsuarioAtual, tipoUsuarioAtual, eventos>>
  /\ UNCHANGED <<chavesVars, botaoVars, entradaVars>>
  /\ UNCHANGED <<serialWifi, leiturasSetup>>

\* line 611: while (finger.getImage() != FINGERPRINT_NOFINGER) {}
TiraDedo(img, d) ==
  /\ pc = "tiraDedo"
  /\ IF img = "NOFINGER"
     THEN /\ opsBio' = Reg(opsBio, "getImage:NOFINGER")
          /\ pc' = "captura2"
          /\ msgCadastro' = "Encoste de novo"
          /\ desdeBio2' = 0
          /\ Passa(0)
     ELSE /\ opsBio' = Reg(opsBio, "getImage:OK")
          /\ Passa(d)
          /\ UNCHANGED <<pc, msgCadastro, desdeBio2>>
  /\ UNCHANGED <<desdeJanela, idNovo, sessaoAberta, idUsuarioAtual, tipoUsuarioAtual, eventos>>
  /\ UNCHANGED <<chavesVars, botaoVars, entradaVars, memoriaVars>>
  /\ UNCHANGED <<serialWifi, leiturasSetup>>

\* a second capture that writes the template although the captures differ
SegundaCaptura_GravaSempre(r) ==
  IF r.conv2 # "OK"
  THEN [msg |-> "Erro Leitura 2", ops |-> <<"image2Tz2:ERRO">>]
  ELSE IF r.cria # "OK"
  THEN [msg |-> "Dedo Diferente!", ops |-> <<"image2Tz2:OK", "createModel:ERRO", "storeModel:OK">>]
  ELSE IF r.grava = "OK"
  THEN [msg |-> "Salvo ID", ops |-> <<"image2Tz2:OK", "createModel:OK", "storeModel:OK">>]
  ELSE [msg |-> "Erro ao Salvar", ops |-> <<"image2Tz2:OK", "createModel:OK", "storeModel:ERRO">>]

\* lines 635-658: the second capture, from the sensor's three replies: the
\* operations issued with their replies, and the text it ends with
SegundaCaptura(r) ==
  IF r.conv2 # "OK"
  THEN [msg |-> "Erro Leitura 2", ops |-> <<"image2Tz2:ERRO">>]
  ELSE IF r.cria # "OK"
  THEN [msg |-> "Dedo Diferente!", ops |-> <<"image2Tz2:OK", "createModel:ERRO">>]
  ELSE IF r.grava = "OK"
  THEN [msg |-> "Salvo ID", ops |-> <<"image2Tz2:OK", "createModel:OK", "storeModel:OK">>]
  ELSE [msg |-> "Erro ao Salvar", ops |-> <<"image2Tz2:OK", "createModel:OK", "storeModel:ERRO">>]

\* storeModel(idNovo) that answered OK wrote the template at idNovo
AposGravacao(tpl, ops, id) ==
  IF \E k \in 1 .. Len(ops) : ops[k] = "storeModel:OK" THEN tpl \cup {id} ELSE tpl

\* lines 618-659: the 5 s sub-window and the second capture
Captura2(img, r, d) ==
  /\ pc = "captura2"
  /\ IF ~(desdeBio2 < JANELA_BIO2)
     THEN /\ SaiCadastro("Tempo Esgotado", 2000)
          /\ UNCHANGED <<desdeBio2, opsBio, templates>>
     ELSE IF img = "OK"
     THEN LET c == SegundaCaptura(r)
          IN /\ opsBio' = Reg(opsBio, "getImage:OK") \o c.ops
             /\ templates' = AposGravacao(templates, c.ops, idNovo)
             /\ SaiCadastro(c.msg, IF c.msg = "Salvo ID" THEN 1000 + 2000 ELSE 2000)
             /\ UNCHANGED desdeBio2
     ELSE /\ opsBio' = Reg(opsBio, "getImage:NOFINGER")
          /\ desdeBio2' = Dep(desdeBio2, d, JANELA_BIO2 - 1)
          /\ Passa(d)
          /\ UNCHANGED <<pc, msgCadastro, templates>>
  /\ UNCHANGED <<desdeJanela, idNovo, eeprom, anexadas>>
  /\ UNCHANGED <<sessaoAberta, idUsuarioAtual, tipoUsuarioAtual, eventos>>
  /\ UNCHANGED <<chavesVars, botaoVars, entradaVars>>
  /\ UNCHANGED <<serialWifi, leiturasSetup>>

\* loop() lines 170-171 after executarRotinaCadastro returned
FimCadastro ==
  /\ pc = "fimCadastro"
  /\ pc' = "loop"
  /\ modoCadastroAtivo' = FALSE
  /\ desdeJanela' = 0
  /\ desdeBio2' = 0
  /\ idNovo' = -1
  /\ msgCadastro' = ""
  /\ opsBio' = <<>>
  /\ Passa(0)
  /\ UNCHANGED <<estadoBotaoCad, ultimoEstadoBotaoCad, cadastros>>
  /\ UNCHANGED <<sessaoAberta, idUsuarioAtual, tipoUsuarioAtual, eventos>>
  /\ UNCHANGED <<chavesVars, entradaVars, memoriaVars>>
  /\ UNCHANGED <<serialWifi, leiturasSetup>>

(***************************************************************************)
(* The controller                                                          *)
(***************************************************************************)
Next ==
  \/ \E leitura \in {LOW, HIGH}, d \in PassosLoop : Loop(leitura, d)
  \/ \E r \in RespostasBio(templates), uid \in Cartoes \cup {<<>>} :
       VerificarEntradaUsuario(r, uid)
  \/ \E leitura \in BOOLEAN, w \in RespostasWifi : MonitorSlot(leitura, w)
  \/ \E w \in RespostasWifi : AlarmeFim(w)
  \/ VerificarTimeoutSessao
  \/ IniciaCadastro
  \/ \E uid \in Cartoes \cup {<<>>}, img \in RespostasImagem,
        conv1 \in {"OK", "ERRO"}, d \in Esperas : Janela(uid, img, conv1, d)
  \/ \E img \in RespostasImagem, d \in Esperas : TiraDedo(img, d)
  \/ \E img \in RespostasImagem, r \in RespostasGravacao, d \in Esperas :
       Captura2(img, r, d)
  \/ FimCadastro

Spec == Init /\ [][Next]_vars

(***************************************************************************)
(* One enrollment excursion, from the pass of loop() that found the button *)
(* pressed for the first time after power-up, over more occupancy patterns *)
(* of the template store than Spec starts from.                            *)
(***************************************************************************)
PadroesOcupacao ==
  { (1 .. n) \ b : n \in {0, 2, 5, ULTIMO_ID_BIO}, b \in SUBSET {1, 4, ULTIMO_ID_BIO} }

InitCadastro ==
  /\ pc = "cadastro"
  /\ index = 0
  /\ leituraAtual = FALSE
  /\ estadoAnteriorChaves \in [Indices -> BOOLEAN]
  /\ leiturasSetup = [i \in {} |-> FALSE]
  /\ alarme = FALSE
  /\ sessaoAberta = FALSE
  /\ desdeSessao = 0
  /\ idUsuarioAtual = <<>>
  /\ tipoUsuarioAtual = ""
  /\ desdeCheck \in {0, INTERVALO_CHECK + 1}
  /\ estadoBotaoCad = LOW
  /\ ultimoEstadoBotaoCad = LOW
  /\ desdeDebounce = DELAY_DEBOUNCE + 1
  /\ modoCadastroAtivo = TRUE
  /\ idBio = -1
  /\ idTag = <<>>
  /\ eventos = <<>>
  /\ serialWifi = <<>>
  /\ eeprom = [a \in EepromEnderecos |-> EEPROM_VAZIA]
  /\ templates \in PadroesOcupacao
  /\ desdeJanela = 0
  /\ desdeBio2 = 0
  /\ idNovo = -1
  /\ msgCadastro = ""
  /\ opsBio = <<>>
  /\ cadastros = 1
  /\ anexadas = {}

NextCadastro ==
  \/ IniciaCadastro
  \/ \E uid \in Cartoes \cup {<<>>}, img \in RespostasImagem,
        conv1 \in {"OK", "ERRO"}, d \in Esperas : Janela(uid, img, conv1, d)
  \/ \E img \in RespostasImagem, d \in Esperas : TiraDedo(img, d)
  \/ \E img \in RespostasImagem, r \in RespostasGravacao, d \in Esperas :
       Captura2(img, r, d)
  \/ FimCadastro

SpecCadastro == InitCadastro /\ [][NextCadastro]_vars

\* The processor keeps running, so every step of the excursion that changes
\* what the controller holds is eventually taken: the two windows are left
\* when their time is up whatever the sensors answer.  The loop of line 611
\* keeps polling too, but the sensor owes it no "no finger": only the poll
\* that finds the finger still there is sure to be taken.
JustoCadastro ==
  /\ WF_vars(IniciaCadastro)
  /\ WF_vars(\E d \in Esperas : TiraDedo("OK", d))
  /\ WF_vars(\E uid \in Cartoes \cup {<<>>}, img \in RespostasImagem,
                conv1 \in {"OK", "ERRO"}, d \in Esperas : Janela(uid, img, conv1, d))
  /\ WF_vars(\E img \in RespostasImagem, r \in RespostasGravacao, d \in Esperas :
                Captura2(img, r, d))
  /\ WF_vars(FimCadastro)

SpecCadastroJusto == InitCadastro /\ [][NextCadastro]_vars /\ JustoCadastro

(***************************************************************************)
(* The card ledger alone: salvarTagEEPROM applied again and again to a     *)
(* ledger that power-up finds empty, short or nearly as long as the count  *)
(* byte can tell, each append either run to its end or cut by a power loss *)
(* after some of its EEPROM.write calls.  The controller restarts after a  *)
(* power loss, so its RAM stays as setup() leaves it.                      *)
(***************************************************************************)
\* every cell a record of the ledger can occupy with a one-byte count
EepromLedger == 0 .. (4 * EEPROM_VAZIA)

\* the card whose records fill a ledger that is not empty at power-up
CartaoVeterano == <<18, 52, 86, 120>>

\* a ledger of n records, written by n appends of CartaoVeterano
LedgerCom(n) ==
  [a \in EepromLedger |->
     IF a = 0 THEN (IF n = 0 THEN EEPROM_VAZIA ELSE n)
     ELSE IF a <= 4 * n THEN CartaoVeterano[((a - 1) % 4) + 1]
     ELSE EEPROM_VAZIA]

\* record counts the ledger starts with
ContagensIniciais == {0, 1, EEPROM_VAZIA - 2, EEPROM_VAZIA - 1}

InitLedger ==
  /\ pc = "loop"
  /\ index = 0
  /\ leituraAtual = FALSE
  /\ leiturasSetup = [i \in Indices |-> FALSE]
  /\ estadoAnteriorChaves = SnapshotInicial(leiturasSetup)
  /\ alarme = FALSE
  /\ sessaoAberta = FALSE
  /\ desdeSessao = 0
  /\ idUsuarioAtual = <<>>
  /\ tipoUsuarioAtual = ""
  /\ desdeCheck = INTERVALO_CHECK + 1
  /\ estadoBotaoCad = 0
  /\ ultimoEstadoBotaoCad = HIGH
  /\ desdeDebounce = DELAY_DEBOUNCE + 1
  /\ modoCadastroAtivo = FALSE
  /\ idBio = -1
  /\ idTag = <<>>
  /\ eventos = <<>>
  /\ serialWifi = <<>>
  /\ \E n \in ContagensIniciais :
       /\ eeprom = LedgerCom(n)
       /\ anexadas = (IF n = 0 THEN {} ELSE {TagDoUID(CartaoVeterano)})
  /\ templates = {}
  /\ desdeJanela = 0
  /\ desdeBio2 = 0
  /\ idNovo = -1
  /\ msgCadastro = ""
  /\ opsBio = <<>>
  /\ cadastros = 0

\* salvarTagEEPROM(tag) run to its end
AnexaTag(uid) ==
  /\ cadastros < MaxAnexos
  /\ cadastros' = cadastros + 1
  /\ eeprom' = SalvarTagEEPROM(eeprom, TagDoUID(uid))
  /\ anexadas' = anexadas \cup {TagDoUID(uid)}
  /\ UNCHANGED <<pc, templates, sessaoVars, chavesVars, entradaVars, cadastroVars>>
  /\ UNCHANGED <<desdeCheck, estadoBotaoCad, ultimoEstadoBotaoCad, desdeDebounce,
                 modoCadastroAtivo, eventos>>
  /\ UNCHANGED <<serialWifi, leiturasSetup>>

\* salvarTagEEPROM(tag) cut by a power loss after n of its five writes
AnexaInterrompida(uid, n) ==
  /\ cadastros < MaxAnexos
  /\ cadastros' = cadastros + 1
  /\ eeprom' = AposEscritas(eeprom, EscritasTag(eeprom, TagDoUID(uid)), n)
  /\ UNCHANGED <<pc, templates, anexadas, sessaoVars, chavesVars, entradaVars, cadastroVars>>
  /\ UNCHANGED <<desdeCheck, estadoBotaoCad, ultimoEstadoBotaoCad, desdeDebounce,
                 modoCadastroAtivo, eventos>>
  /\ UNCHANGED <<serialWifi, leiturasSetup>>

NextLedger ==
  \/ \E uid \in Cartoes : AnexaTag(uid)
  \/ \E uid \in Cartoes, n \in 1 .. 4 : AnexaInterrompida(uid, n)

SpecLedger == InitLedger /\ [][NextLedger]_vars

(***************************************************************************)
(* Properties                                                              *)
(***************************************************************************)
\* the entries a step adds to the log of the pass
NovosEventos == SubSeq(eventos', Len(eventos) + 1, Len(eventos'))

TemEvento(nome) == \E k \in 1 .. Len(eventos) : eventos[k].evento = nome

\* the step reads slot `index` and finds a key that the snapshot has as
\* present (pin LOW) gone (pin HIGH)
LeuRetirada == pc = "monitor" /\ leituraAtual' /\ ~estadoAnteriorChaves[index]

\* the step reads slot `index` and finds a key that was gone back in place
LeuDevolucao == pc = "monitor" /\ ~leituraAtual' /\ estadoAnteriorChaves[index]

\* C1: a present->absent reading of a slot taken while no session is open adds
\* exactly one ALARME_ROUBO event for that pin to the log and no retrieval (and
\* the rest of the alarm handling adds nothing); taken while a session is open
\* it adds exactly one RETIRADA_AUTORIZADA event carrying the pin and the
\* session's id and kind, closes the session and does not raise the alarm.
C1_RetiradaOuRoubo ==
  [][ /\ LeuRetirada /\ ~sessaoAberta =>
           /\ NovosEventos = << Ev("ALARME_ROUBO", Pino(index), <<>>, "") >>
           /\ pc' = "alarme"
      /\ LeuRetirada /\ sessaoAberta =>
           /\ NovosEventos =
                << Ev("RETIRADA_AUTORIZADA", Pino(index), idUsuarioAtual, tipoUsuarioAtual) >>
           /\ ~sessaoAberta'
           /\ ~alarme'
           /\ pc' # "alarme"
      /\ pc = "alarme" => NovosEventos = <<>> /\ eventos' = eventos
    ]_vars

\* C1 witness: one pass in which slot 25 was retrieved under an RFID session
\* and slot 26, read after the session closed, raised the theft alarm
C1_Witness ==
  /\ pc = "timeout"
  /\ Len(eventos) = 2
  /\ eventos[1].evento = "RETIRADA_AUTORIZADA"
  /\ eventos[1].pino = PINO_CHAVE_INICIO
  /\ eventos[1].tipo_auth = "RFID"
  /\ eventos[2] = Ev("ALARME_ROUBO", PINO_CHAVE_FIM, <<>>, "")

\* the tags the ledger holds: its first QtdTags records, as the lookup prints them
TagsNoLedger(mem) == {TagArmazenada(mem, i) : i \in 0 .. (QtdTags(mem) - 1)}

\* C2: a session is opened only by verificarEntradaUsuario, and only when the
\* biometric search returned a stored template or, the biometric sensor having
\* seen nothing, the card read is in the ledger; a failed read (biometric -2,
\* or a card that is not in the ledger) adds one ACESSO_NEGADO entry and leaves
\* the session closed; with no attempt on either reader nothing is logged and
\* the session is as before.
C2_AberturaSoComCredencial ==
  [][ /\ (~sessaoAberta /\ sessaoAberta') =>
           /\ pc = "entrada"
           /\ \/ idBio' >= 0 /\ idBio' \in templates
              \/ idBio' = -1 /\ idTag' # <<>> /\ idTag' \in TagsNoLedger(eeprom)
      /\ ( /\ pc = "entrada"
           /\ ~sessaoAberta
           /\ \/ idBio' = -2
              \/ idBio' = -1 /\ idTag' # <<>> /\ idTag' \notin TagsNoLedger(eeprom) ) =>
           /\ Len(NovosEventos) = 1
           /\ NovosEventos[1].evento = "ACESSO_NEGADO"
           /\ ~sessaoAberta'
      /\ (pc = "entrada" /\ idBio' = -1 /\ idTag' = <<>>) =>
           /\ NovosEventos = <<>>
           /\ sessaoAberta' = sessaoAberta
    ]_vars

\* C2 witness: a card that is not in the ledger was read and denied
C2_Witness ==
  /\ pc = "monitor"
  /\ idBio = -1
  /\ idTag \in TagsLeitor
  /\ eventos = << Ev("ACESSO_NEGADO", 0, idTag, "RFID") >>
  /\ ~sessaoAberta

\* C3 (as claimed): the timeout closes an expired session with one
\* SESSAO_EXPIROU entry, and a key removal read once more than
\* TEMPO_LIMITE_SESSAO has passed since the session opened is a theft, never
\* an authorized retrieval.
C3_RetiradaTardiaEhRoubo ==
  [][ /\ (pc = "timeout" /\ sessaoAberta /\ desdeSessao > TEMPO_LIMITE_SESSAO) =>
           /\ ~sessaoAberta'
           /\ NovosEventos = << Ev("SESSAO_EXPIROU", 0, <<>>, "") >>
      /\ (LeuRetirada /\ desdeSessao > TEMPO_LIMITE_SESSAO) =>
           NovosEventos = << Ev("ALARME_ROUBO", Pino(index), <<>>, "") >>
    ]_vars

\* C4: while a session is open verificarEntradaUsuario reads no credential,
\* no step logs SESSAO_ABERTA, and as long as the session stays open its id,
\* its kind and its opening time stay as they are; SESSAO_ABERTA is logged
\* exactly once, with the new id and kind, by the step that opens a session
\* and by no other step.
C4_UmaSessao ==
  [][ /\ sessaoAberta =>
           /\ \A k \in 1 .. Len(NovosEventos) : NovosEventos[k].evento # "SESSAO_ABERTA"
           /\ pc = "entrada" => idBio' = -1 /\ idTag' = <<>> /\ NovosEventos = <<>>
           /\ sessaoAberta' =>
                /\ idUsuarioAtual' = idUsuarioAtual
                /\ tipoUsuarioAtual' = tipoUsuarioAtual
                /\ desdeSessao' >= desdeSessao
      /\ (~sessaoAberta /\ sessaoAberta') =>
           /\ NovosEventos = << Ev("SESSAO_ABERTA", 0, idUsuarioAtual', tipoUsuarioAtual') >>
           /\ desdeSessao' = 0
      /\ (\E k \in 1 .. Len(NovosEventos) : NovosEventos[k].evento = "SESSAO_ABERTA") =>
           ~sessaoAberta /\ sessaoAberta'
    ]_vars

\* C4 witness: verificarEntradaUsuario has just returned without reading a
\* credential, the session having been open for some time
C4_Witness ==
  /\ pc = "monitor"
  /\ index = 0
  /\ sessaoAberta
  /\ desdeSessao > 0
  /\ eventos = <<>>
  /\ tipoUsuarioAtual = "Biometria"

\* the entries of the log that the panel poll wrote (they carry a pin)
EventosDeChave == SelectSeq(eventos, LAMBDA e : e.pino # 0)

\* C5: the panel poll logs its slots in ascending pin order, at most one
\* RETIRADA_AUTORIZADA in a pass; a retrieval is logged only by a step that
\* finds the session open and closes it, a session is opened only by a step
\* that logs SESSAO_ABERTA, and a removal read in a pass that has already
\* logged a retrieval is logged ALARME_ROUBO.
C5_UmaRetiradaPorSessao ==
  /\ [](/\ \A j, k \in 1 .. Len(EventosDeChave) :
             j < k => EventosDeChave[j].pino < EventosDeChave[k].pino
        /\ Cardinality({k \in 1 .. Len(eventos) :
                          eventos[k].evento = "RETIRADA_AUTORIZADA"}) <= 1)
  /\ [][ /\ (\E k \in 1 .. Len(NovosEventos) :
                NovosEventos[k].evento = "RETIRADA_AUTORIZADA") =>
              /\ Len(NovosEventos) = 1
              /\ sessaoAberta
              /\ ~sessaoAberta'
         /\ (~sessaoAberta /\ sessaoAberta') =>
              \E k \in 1 .. Len(NovosEventos) : NovosEventos[k].evento = "SESSAO_ABERTA"
         /\ (LeuRetirada /\ (TemEvento("RETIRADA_AUTORIZADA") \/ ~sessaoAberta)) =>
              NovosEventos = << Ev("ALARME_ROUBO", Pino(index), <<>>, "") >>
       ]_vars

\* C5 witness: the alarm is on for slot 26, whose key left in the same pass
\* in which the key of slot 25 was retrieved under the session
C5_Witness ==
  /\ pc = "alarme"
  /\ index = 1
  /\ eventos[Len(eventos)].evento = "ALARME_ROUBO"
  /\ \E k \in 1 .. Len(eventos) :
       /\ eventos[k].evento = "RETIRADA_AUTORIZADA"
       /\ eventos[k].pino = PINO_CHAVE_INICIO
  /\ TemEvento("SESSAO_ABERTA")

\* C9: a reading of a slot that differs from its snapshot adds exactly one
\* entry for that pin (retrieval, theft or return) and, once the handling of
\* the slot is over, the snapshot of that slot is the reading and the other
\* snapshots are as before; a reading equal to the snapshot adds nothing and
\* changes no snapshot.
C9_UmEventoPorTransicao ==
  [][ /\ (pc = "monitor" /\ leituraAtual' # estadoAnteriorChaves[index]) =>
           /\ Len(NovosEventos) = 1
           /\ NovosEventos[1].pino = Pino(index)
           /\ NovosEventos[1].evento \in {"RETIRADA_AUTORIZADA", "ALARME_ROUBO", "DEVOLUCAO"}
           /\ pc' # "alarme" =>
                estadoAnteriorChaves' = [estadoAnteriorChaves EXCEPT ![index] = leituraAtual']
           /\ pc' = "alarme" => index' = index /\ UNCHANGED estadoAnteriorChaves
      /\ (pc = "monitor" /\ leituraAtual' = estadoAnteriorChaves[index]) =>
           /\ NovosEventos = <<>>
           /\ UNCHANGED estadoAnteriorChaves
      /\ pc = "alarme" =>
           /\ NovosEventos = <<>>
           /\ pc' # "alarme"
           /\ estadoAnteriorChaves' = [estadoAnteriorChaves EXCEPT ![index] = leituraAtual]
      /\ pc \notin {"monitor", "alarme"} =>
           /\ UNCHANGED estadoAnteriorChaves
           /\ \A k \in 1 .. Len(NovosEventos) : NovosEventos[k].pino = 0
    ]_vars

\* C9 witness: the poll is over, the key of slot 25 was reported gone, and the
\* key of slot 26, absent before and absent now, was not reported
C9_Witness ==
  /\ pc = "timeout"
  /\ Len(EventosDeChave) = 1
  /\ EventosDeChave[1].pino = PINO_CHAVE_INICIO
  /\ EventosDeChave[1].evento = "ALARME_ROUBO"
  /\ estadoAnteriorChaves[0]
  /\ estadoAnteriorChaves[1]
  /\ leituraAtual

\* C10: an absent->present reading of a slot adds exactly one DEVOLUCAO entry
\* for that pin, does not raise the alarm, and leaves the session as it is:
\* open or closed as before, same id, same kind, and the opening time only
\* older by the time the telemetry send took.
C10_DevolucaoNaoMexeNaSessao ==
  [][ LeuDevolucao =>
        /\ NovosEventos = << Ev("DEVOLUCAO", Pino(index), <<>>, "") >>
        /\ ~alarme'
        /\ pc' # "alarme"
        /\ sessaoAberta' = sessaoAberta
        /\ idUsuarioAtual' = idUsuarioAtual
        /\ tipoUsuarioAtual' = tipoUsuarioAtual
        /\ sessaoAberta =>
             desdeSessao' \in {Dep(desdeSessao, DuracaoEnvio(w), TEMPO_LIMITE_SESSAO) :
                                 w \in RespostasWifi}
    ]_vars

\* C10 witness: a key came back while a session was open, and the session is
\* still open with its credential
C10_Witness ==
  /\ pc \in {"monitor", "timeout"}
  /\ eventos # <<>>
  /\ eventos[Len(eventos)].evento = "DEVOLUCAO"
  /\ sessaoAberta
  /\ idUsuarioAtual # <<>>
  /\ tipoUsuarioAtual = "RFID"

\* C6: every tag handed to salvarTagEEPROM is found by verificarTagNaEEPROM
\* afterwards, and a tag of the reader that was never handed to it is not
\* found; the answer is computed from the persistent bytes alone, so it is the
\* same after a restart.
C6_LedgerIdaEVolta ==
  /\ \A x \in anexadas : VerificarTagNaEEPROM(eeprom, x)
  /\ \A y \in TagsLeitor \ anexadas : ~VerificarTagNaEEPROM(eeprom, y)

\* the step in which executarRotinaCadastro returns
SaiDoCadastro == pc \in {"janela", "captura2"} /\ pc' = "fimCadastro"

\* the calls of storeModel in the log the excursion ends with
Gravacoes == {k \in 1 .. Len(opsBio') : opsBio'[k] \in {"storeModel:OK", "storeModel:ERRO"}}

\* the two captures combined: createModel answered OK
Combinou == \E k \in 1 .. Len(opsBio') : opsBio'[k] = "createModel:OK"

\* an enrollment that ends in an abort calls storeModel never and leaves the
\* template store and the card ledger as they were
AbortoNaoGrava ==
  (SaiDoCadastro /\ msgCadastro' \in {"Memoria Cheia", "Erro Leitura 1", "Erro Leitura 2",
                                      "Tempo Esgotado", "Dedo Diferente!"}) =>
    /\ Gravacoes = {}
    /\ ~Combinou
    /\ UNCHANGED <<templates, eeprom>>

\* C7 as stated: nothing is committed on an abort, and when the two captures
\* combine exactly one template is stored, at the index the search found.
C7_CombinouEntaoGravou ==
  [][ /\ AbortoNaoGrava
      /\ (SaiDoCadastro /\ Combinou) =>
           /\ idNovo \in (1 .. ULTIMO_ID_BIO) \ templates
           /\ templates' = templates \cup {idNovo}
    ]_vars

\* C7, amended: nothing is committed on an abort; when the two captures
\* combine storeModel is called exactly once, for the index the search found,
\* which was free; if it answers OK exactly that template is added, if it
\* answers with an error the template store is unchanged and the display says
\* so.  The template store changes in no other step of the enrollment.
C7_GravaUmaVezSeCombinou ==
  [][ /\ AbortoNaoGrava
      /\ (SaiDoCadastro /\ Combinou) =>
           /\ Cardinality(Gravacoes) = 1
           /\ idNovo' = idNovo
           /\ idNovo \in (1 .. ULTIMO_ID_BIO) \ templates
           /\ idNovo = BuscarIdLivre(templates)
           /\ UNCHANGED eeprom
           /\ IF msgCadastro' = "Salvo ID"
              THEN templates' = templates \cup {idNovo}
              ELSE msgCadastro' = "Erro ao Salvar" /\ UNCHANGED templates
      /\ (pc \in {"cadastro", "janela", "tiraDedo", "captura2", "fimCadastro"}
            /\ ~(SaiDoCadastro /\ Combinou)) => UNCHANGED templates
    ]_vars

\* C7 witness: the enrollment ended on captures that did not combine, with
\* index 6 found free above five stored templates, and stored nothing
C7_Witness ==
  /\ pc = "fimCadastro"
  /\ msgCadastro = "Dedo Diferente!"
  /\ idNovo = 6
  /\ templates = 1 .. 5
  /\ opsBio[Len(opsBio)] = "createModel:ERRO"

\* the template store as the free-slot search of this excursion found it
TemplatesNaBusca ==
  IF \E k \in 1 .. Len(opsBio) : opsBio[k] = "storeModel:OK"
  THEN templates \ {idNovo}
  ELSE templates

\* C8: once the search has run, idNovo is the smallest index of 1 .. 127 that
\* was not stored (6 above the stored 1 .. 5), whatever the occupancy; when
\* all 127 were stored it is -1 and the enrollment has ended with the capacity
\* message, without a conversion, a model or a write.
C8_MenorIndiceLivre ==
  (\E k \in 1 .. Len(opsBio) : opsBio[k] = "loadModel") =>
    /\ IF TemplatesNaBusca = 1 .. ULTIMO_ID_BIO
       THEN /\ idNovo = -1
            /\ pc = "fimCadastro"
            /\ msgCadastro = "Memoria Cheia"
            /\ opsBio[Len(opsBio)] = "loadModel"
            /\ \A k \in 1 .. Len(opsBio) : opsBio[k] \in {"getImage:OK", "getImage:NOFINGER", "loadModel"}
            /\ templates = 1 .. ULTIMO_ID_BIO
       ELSE /\ idNovo \in 1 .. ULTIMO_ID_BIO
            /\ idNovo \notin TemplatesNaBusca
            /\ \A j \in 1 .. (idNovo - 1) : j \in TemplatesNaBusca
            /\ msgCadastro # "Memoria Cheia"
    /\ TemplatesNaBusca = 1 .. 5 => idNovo = 6

\* C8 witness: with 1 .. 127 stored but for index 4, the search found 4 and the
\* template was written there
C8_Witness ==
  /\ pc = "fimCadastro"
  /\ msgCadastro = "Salvo ID"
  /\ idNovo = 4
  /\ templates = 1 .. ULTIMO_ID_BIO

\* the 4-byte records the completed appends wrote: the first 8 characters
RegistrosAnexados == {Substring(x, 0, 8) : x \in anexadas}

\* C11: after any number of appends the count byte does not read back as the
\* erased sentinel, and every appended identifier of a 4-byte card is still
\* found (an append the ledger has no room for is refused and changes nothing).
C11_SemVoltaDaContagem ==
  /\ anexadas # {} => eeprom[0] # EEPROM_VAZIA
  /\ \A x \in anexadas : Len(x) = 8 => VerificarTagNaEEPROM(eeprom, x)

\* C12: at every point, a power loss after any single EEPROM.write included,
\* every record the count byte covers was written completely by an append
\* that reached its end, and an append that reached its end left the memory
\* that salvarTagEEPROM computes.
C12_ContagemDepoisDoRegistro ==
  /\ [](\A i \in 0 .. (QtdTags(eeprom) - 1) : TagArmazenada(eeprom, i) \in RegistrosAnexados)
  /\ [][ \A uid \in Cartoes :
           AposEscritas(eeprom, EscritasTag(eeprom, TagDoUID(uid)), 5)
             = SalvarTagEEPROM(eeprom, TagDoUID(uid)) ]_vars
  /\ [][ QtdTags(eeprom') > QtdTags(eeprom) =>
           /\ QtdTags(eeprom') = QtdTags(eeprom) + 1
           /\ anexadas' # anexadas \/ TagArmazenada(eeprom', QtdTags(eeprom)) \in RegistrosAnexados
       ]_vars

\* C12 witness: power was lost on an empty ledger after two bytes of the first
\* record; the count still reads as zero
C12_Witness ==
  /\ anexadas = {}
  /\ eeprom[0] = EEPROM_VAZIA
  /\ eeprom[1] = 4
  /\ eeprom[2] # EEPROM_VAZIA
  /\ eeprom[3] = EEPROM_VAZIA
  /\ cadastros = 1

\* C13: while no session is open the credential of the session is cleared,
\* the id and the kind both.
C13_SessaoFechadaSemCredencial ==
  ~sessaoAberta => (idUsuarioAtual = <<>> /\ tipoUsuarioAtual = "")

\* C14: an enrollment excursion, once entered, ends: control is back in
\* loop() with the enrollment mode cleared.
C14_CadastroTermina ==
  modoCadastroAtivo ~> (pc = "loop" /\ ~modoCadastroAtivo)

\* the positions of the enrollment log that hold one of the operations `nomes`
PosOps(nomes) == {k \in 1 .. Len(opsBio) : opsBio[k] \in nomes}

\* C15: the sensor operations of an enrollment come in the order free-slot
\* search, image2Tz(1), a getImage that answers "no finger", a getImage that
\* answers with a finger, image2Tz(2), createModel, storeModel, each at most
\* once: the search directly follows the first image and no conversion comes
\* before it, and image2Tz(2) is issued only on an image taken after the
\* sensor answered "no finger" after image2Tz(1).
C15_OrdemDasOperacoes ==
  LET conv1 == PosOps({"image2Tz1:OK", "image2Tz1:ERRO"})
      conv2 == PosOps({"image2Tz2:OK", "image2Tz2:ERRO"})
      cria == PosOps({"createModel:OK", "createModel:ERRO"})
      grava == PosOps({"storeModel:OK", "storeModel:ERRO"})
      busca == PosOps({"loadModel"})
  IN /\ \A c \in {conv1, conv2, cria, grava, busca} : Cardinality(c) <= 1
     /\ \A k \in busca :
          /\ opsBio[k - 1] = "getImage:OK"
          /\ \A j \in conv1 \cup conv2 \cup cria \cup grava : k < j
     /\ \A k \in conv1 : k - 1 \in busca
     /\ \A k \in conv2 :
          /\ opsBio[k - 1] = "getImage:OK"
          /\ opsBio[k - 2] = "getImage:NOFINGER"
          /\ \E j \in conv1 : j < k - 2 /\ opsBio[j] = "image2Tz1:OK"
     /\ \A k \in cria : opsBio[k - 1] = "image2Tz2:OK"
     /\ \A k \in grava : opsBio[k - 1] = "createModel:OK"
     /\ pc \in {"tiraDedo", "captura2"} => conv1 # {}
     /\ pc = "captura2" =>
          opsBio[Len(opsBio)] = "getImage:NOFINGER" /\ \A j \in conv1 : j < Len(opsBio)

\* C15 witness: a whole enrollment, the finger held for a while after the
\* first conversion, then lifted, put back, converted, combined and stored
C15_Witness ==
  opsBio = << "getImage:OK", "loadModel", "image2Tz1:OK", "getImage:OK", "getImage:NOFINGER",
              "getImage:OK", "image2Tz2:OK", "createModel:OK", "storeModel:OK" >>

\* the key events of the pass that enviarDadosFirebase has been called for:
\* all of them, but for the theft whose alarm has just been raised
EventosEnviados ==
  IF pc = "alarme" THEN SubSeq(EventosDeChave, 1, Len(EventosDeChave) - 1) ELSE EventosDeChave

\* the positions of the SerialWifi log that hold the operation `op`
PosWifi(op) == {k \in 1 .. Len(serialWifi) : serialWifi[k].op = op}

\* the n-th of the positions P, counted upwards
Enesima(P, n) == CHOOSE k \in P : Cardinality({j \in P : j <= k}) = n

\* C16: each key event of the pass has had exactly one enviarDadosFirebase,
\* in the order of the events, with exactly one AT+CIPSTART; a send whose poll
\* saw no CONNECT wrote no AT+CIPSEND, no headers and no body and is followed
\* only by the send of the next event; a send that saw CONNECT wrote the three
\* once; a step sends only the event it has just logged (the theft logged
\* when the alarm was raised, for the step that ends the alarm), so nothing is
\* sent again later, and the step after a send is not held back.
C16_UmEnvioPorEvento ==
  /\ [](/\ Cardinality(PosWifi("AT+CIPSTART")) = Len(EventosEnviados)
        /\ Cardinality(PosWifi("drena")) = Len(EventosEnviados)
        /\ \A n \in 1 .. Len(EventosEnviados) :
             serialWifi[Enesima(PosWifi("AT+CIPSTART"), n)].ev = EventosEnviados[n]
        /\ \A k \in PosWifi("AT+CIPSTART") :
             /\ k < Len(serialWifi)
             /\ serialWifi[k + 1].op \in {"CONNECT", "SEM_CONNECT"}
        /\ \A k \in PosWifi("SEM_CONNECT") :
             /\ serialWifi[k - 1].op = "AT+CIPSTART"
             /\ k = Len(serialWifi) \/ serialWifi[k + 1].op = "drena"
             /\ \A j \in 1 .. Len(serialWifi) :
                  serialWifi[j].ev = serialWifi[k].ev =>
                    serialWifi[j].op \notin {"AT+CIPSEND", "headers", "json"}
        /\ \A k \in PosWifi("CONNECT") :
             /\ serialWifi[k - 1].op = "AT+CIPSTART"
             /\ k + 3 <= Len(serialWifi)
             /\ serialWifi[k + 1] = OpWifi("AT+CIPSEND", serialWifi[k].ev)
             /\ serialWifi[k + 2] = OpWifi("headers", serialWifi[k].ev)
             /\ serialWifi[k + 3] = OpWifi("json", serialWifi[k].ev)
             /\ k + 3 = Len(serialWifi) \/ serialWifi[k + 4].op = "drena"
        /\ \A k \in PosWifi("AT+CIPSEND") \cup PosWifi("headers") \cup PosWifi("json") :
             \E j \in PosWifi("CONNECT") : j < k /\ k <= j + 3)
  /\ [][ /\ serialWifi' # <<>> =>
              /\ Len(serialWifi') >= Len(serialWifi)
              /\ SubSeq(serialWifi', 1, Len(serialWifi)) = serialWifi
              /\ \A k \in (Len(serialWifi) + 1) .. Len(serialWifi') :
                   serialWifi'[k].ev = (IF pc = "alarme" THEN eventos[Len(eventos)]
                                        ELSE eventos'[Len(eventos')])
         /\ (pc = "alarme" \/ NovosEventos # <<>>) => pc' # pc \/ index' # index
       ]_vars

\* C16 witness: the return of the key of pin 25 was sent and got no CONNECT,
\* and the theft of the key of pin 26 was sent after it, with CONNECT
C16_Witness ==
  /\ pc = "timeout"
  /\ Len(serialWifi) = 5 + 8
  /\ serialWifi[5] = OpWifi("SEM_CONNECT", Ev("DEVOLUCAO", PINO_CHAVE_INICIO, <<>>, ""))
  /\ serialWifi[6].op = "drena"
  /\ serialWifi[13] = OpWifi("json", Ev("ALARME_ROUBO", PINO_CHAVE_FIM, <<>>, ""))

\* where the panel poll goes once it is done with the slot `index`
DepoisDoSlot == IF index < PINO_CHAVE_FIM - PINO_CHAVE_INICIO THEN "monitor" ELSE "timeout"

\* C17: what a step of the panel poll, of the theft handling and of the
\* timeout check does to the session, the snapshot, the alarm, the event log
\* and the control flow is fixed by the state, the pin reading and the clock
\* alone: it is the same whether the telemetry send of the step connected or
\* not, and the step is over either way.  Only the SerialWifi log and the time
\* the step took tell the two apart.
C17_ResultadoSemTelemetria ==
  [][ /\ pc = "monitor" =>
           /\ sessaoAberta' = (sessaoAberta /\ ~LeuRetirada)
           /\ idUsuarioAtual' = (IF LeuRetirada THEN <<>> ELSE idUsuarioAtual)
           /\ tipoUsuarioAtual' = tipoUsuarioAtual
           /\ alarme' = (LeuRetirada /\ ~sessaoAberta)
           /\ pc' = (IF LeuRetirada /\ ~sessaoAberta THEN "alarme" ELSE DepoisDoSlot)
           /\ estadoAnteriorChaves' =
                (IF LeuRetirada /\ ~sessaoAberta THEN estadoAnteriorChaves
                 ELSE [estadoAnteriorChaves EXCEPT ![index] = leituraAtual'])
           /\ NovosEventos =
                (IF LeuRetirada /\ sessaoAberta
                 THEN << Ev("RETIRADA_AUTORIZADA", Pino(index), idUsuarioAtual, tipoUsuarioAtual) >>
                 ELSE IF LeuRetirada THEN << Ev("ALARME_ROUBO", Pino(index), <<>>, "") >>
                 ELSE IF LeuDevolucao THEN << Ev("DEVOLUCAO", Pino(index), <<>>, "") >>
                 ELSE <<>>)
      /\ pc = "alarme" =>
           /\ UNCHANGED <<sessaoAberta, idUsuarioAtual, tipoUsuarioAtual, eventos>>
           /\ ~alarme'
           /\ pc' = DepoisDoSlot
           /\ estadoAnteriorChaves' = [estadoAnteriorChaves EXCEPT ![index] = leituraAtual]
           /\ Len(serialWifi') > Len(serialWifi)
      /\ pc = "timeout" =>
           /\ sessaoAberta' = (sessaoAberta /\ ~(desdeSessao > TEMPO_LIMITE_SESSAO))
           /\ UNCHANGED <<estadoAnteriorChaves, alarme, serialWifi>>
           /\ pc' = "loop"
    ]_vars

\* C17 witness: a theft was handled to its end although its send, the only
\* one of the pass, got no CONNECT
C17_Witness ==
  /\ pc \in {"monitor", "timeout"}
  /\ Len(serialWifi) = 5
  /\ serialWifi[5].op = "SEM_CONNECT"
  /\ serialWifi[5].ev.evento = "ALARME_ROUBO"
  /\ ~alarme
  /\ \A i \in Indices : serialWifi[5].ev.pino = Pino(i) => estadoAnteriorChaves[i]

\* C18: the alarm output is high exactly while a theft is being handled, so it
\* is low whenever loop() begins a pass; it goes high in the step that reads a
\* key removal with no session open, and in no other; the step that ends the
\* handling puts it low, whether its send connected or not; an authorized
\* retrieval and a return leave it low.
C18_AlarmeSoNoRoubo ==
  /\ [](alarme <=> pc = "alarme")
  /\ [][ /\ (~alarme /\ alarme') =>
              /\ LeuRetirada
              /\ ~sessaoAberta
              /\ NovosEventos = << Ev("ALARME_ROUBO", Pino(index), <<>>, "") >>
         /\ (LeuRetirada /\ ~sessaoAberta) => alarme'
         /\ ((LeuRetirada /\ sessaoAberta) \/ LeuDevolucao) => (~alarme /\ ~alarme')
         /\ alarme =>
              /\ ~alarme'
              /\ Len(serialWifi') > Len(serialWifi)
              /\ serialWifi'[Len(serialWifi')].ev.evento = "ALARME_ROUBO"
       ]_vars

\* C18 witness: the alarm is high for the key of pin 26, in a pass whose
\* earlier send, for the retrieval of the key of pin 25, got no CONNECT
C18_Witness ==
  /\ alarme
  /\ index = 1
  /\ Len(serialWifi) = 5
  /\ serialWifi[5].op = "SEM_CONNECT"
  /\ serialWifi[5].ev.evento = "RETIRADA_AUTORIZADA"
  /\ eventos[Len(eventos)] = Ev("ALARME_ROUBO", PINO_CHAVE_FIM, <<>>, "")

\* C19: the steps of an enrollment excursion leave the session, the snapshot,
\* the alarm, the event log and SerialWifi as they are, so a session is not
\* closed and a key is not read during it; the denial delay reads no key and
\* the alarm hold reads no key and logs nothing; when the excursion is over
\* the panel poll is due, the next pass of loop() that is not another
\* excursion runs it, and a slot it then reads absent against a present
\* snapshot is logged exactly once, the snapshot taking the reading.
C19_EsperaNaoObserva ==
  [][ /\ pc \in {"cadastro", "janela", "tiraDedo", "captura2", "fimCadastro"} =>
           /\ UNCHANGED <<sessaoAberta, idUsuarioAtual, tipoUsuarioAtual>>
           /\ UNCHANGED <<index, leituraAtual, estadoAnteriorChaves, alarme>>
           /\ UNCHANGED <<eventos, serialWifi>>
      /\ pc = "fimCadastro" => (pc' = "loop" /\ desdeCheck' > INTERVALO_CHECK)
      /\ (pc = "loop" /\ desdeCheck > INTERVALO_CHECK /\ ~modoCadastroAtivo') =>
           (pc' = "entrada" /\ UNCHANGED <<estadoAnteriorChaves, sessaoAberta>>)
      /\ pc = "entrada" =>
           /\ pc' = "monitor"
           /\ index' = 0
           /\ UNCHANGED <<leituraAtual, estadoAnteriorChaves, alarme, serialWifi>>
           /\ \A k \in 1 .. Len(NovosEventos) : NovosEventos[k].pino = 0
      /\ pc = "alarme" => UNCHANGED <<leituraAtual, eventos>>
      /\ LeuRetirada =>
           /\ Len(NovosEventos) = 1
           /\ NovosEventos[1].pino = Pino(index)
           /\ NovosEventos[1].evento \in {"RETIRADA_AUTORIZADA", "ALARME_ROUBO"}
           /\ pc' = "alarme" \/ estadoAnteriorChaves'[index]
      /\ pc = "alarme" => estadoAnteriorChaves'[index] = leituraAtual
    ]_vars

\* C19 witness: an excursion has come to its end with a session open for more
\* than TEMPO_LIMITE_SESSAO and a key in place by the snapshot; the session
\* was not closed and nothing was logged
C19_Witness ==
  /\ pc = "fimCadastro"
  /\ sessaoAberta
  /\ desdeSessao > TEMPO_LIMITE_SESSAO
  /\ eventos = <<>>
  /\ serialWifi = <<>>
  /\ ~estadoAnteriorChaves[0]

\* C20: verificarEntradaUsuario, run with no session open, asks the biometric
\* sensor first: a template id opens the session with kind Biometria and that
\* id and no card is read; a failed biometric read denies and no card is
\* read; a card is read only after the biometric sensor saw nothing, and only
\* then can the session be opened with kind RFID and the id of that card; the
\* step opens the session at most once.
C20_BiometriaPrimeiro ==
  [][ (pc = "entrada" /\ ~sessaoAberta) =>
        /\ idBio' >= 0 =>
             /\ idTag' = <<>>
             /\ sessaoAberta'
             /\ tipoUsuarioAtual' = "Biometria"
             /\ idUsuarioAtual' = StringDec(idBio')
             /\ NovosEventos = << Ev("SESSAO_ABERTA", 0, StringDec(idBio'), "Biometria") >>
        /\ idBio' = -2 => (idTag' = <<>> /\ ~sessaoAberta')
        /\ idTag' # <<>> => idBio' = -1
        /\ (sessaoAberta' /\ tipoUsuarioAtual' = "RFID") =>
             /\ idBio' = -1
             /\ idTag' # <<>>
             /\ idUsuarioAtual' = idTag'
        /\ sessaoAberta' => tipoUsuarioAtual' \in {"Biometria", "RFID"}
        /\ Cardinality({k \in 1 .. Len(NovosEventos) :
                          NovosEventos[k].evento = "SESSAO_ABERTA"}) <= 1
    ]_vars

\* C20 witness: template 4 opened the session and the card reader was not read
C20_Witness ==
  /\ pc = "monitor"
  /\ index = 0
  /\ idBio = 4
  /\ idTag = <<>>
  /\ sessaoAberta
  /\ idUsuarioAtual = <<"4">>
  /\ tipoUsuarioAtual = "Biometria"
  /\ eventos = << Ev("SESSAO_ABERTA", 0, <<"4">>, "Biometria") >>

\* the positions of executarRotinaCadastro
PosicoesCadastro == {"cadastro", "janela", "tiraDedo", "captura2", "fimCadastro"}

\* C21: the accepted level of the button changes only in lerBotaoCadastro, to
\* a reading equal to the reading of the pass before and more than
\* DELAY_DEBOUNCE after the readings last differed; the enrollment mode is
\* set only by such a change from HIGH to LOW, which starts one excursion;
\* while the accepted level is LOW (the button held, through and after the
\* excursion, or since power-up, where the accepted level starts at 0) no
\* excursion is started, and the accepted level goes back to HIGH only by an
\* accepted release.  The controller is inside executarRotinaCadastro exactly
\* while the mode is set.
C21_UmCadastroPorAperto ==
  /\ [](modoCadastroAtivo <=> pc \in PosicoesCadastro)
  /\ [][ /\ estadoBotaoCad' # estadoBotaoCad =>
              /\ pc = "loop"
              /\ ultimoEstadoBotaoCad' = ultimoEstadoBotaoCad
              /\ estadoBotaoCad' = ultimoEstadoBotaoCad'
              /\ desdeDebounce' > DELAY_DEBOUNCE
         /\ (~modoCadastroAtivo /\ modoCadastroAtivo') =>
              /\ pc = "loop"
              /\ pc' = "cadastro"
              /\ estadoBotaoCad = HIGH
              /\ estadoBotaoCad' = LOW
              /\ cadastros' = cadastros + 1
         /\ cadastros' # cadastros => (~modoCadastroAtivo /\ modoCadastroAtivo')
         /\ (pc = "loop" /\ estadoBotaoCad = HIGH /\ estadoBotaoCad' = LOW) =>
              (modoCadastroAtivo' /\ pc' = "cadastro")
         /\ estadoBotaoCad = LOW => (~modoCadastroAtivo' \/ modoCadastroAtivo)
         /\ pc = "cadastro" => pc' = "janela"
         /\ pc = "fimCadastro" => (pc' = "loop" /\ ~modoCadastroAtivo')
       ]_vars

\* C21 witness: one excursion has been run, the button is still held (the
\* accepted level has been LOW ever since), and loop() has gone on to poll
\* the credentials without starting another
C21_Witness ==
  /\ pc = "entrada"
  /\ cadastros = 1
  /\ estadoBotaoCad = LOW
  /\ ultimoEstadoBotaoCad = LOW
  /\ desdeDebounce > DELAY_DEBOUNCE
  /\ ~modoCadastroAtivo

\* the value of the decimal digits a text begins with
RECURSIVE ValorDecimal(_, _)
ValorDecimal(s, acc) ==
  IF s = <<>> \/ ValorDigito(Head(s)) \notin 0 .. 9 THEN acc
  ELSE ValorDecimal(Tail(s), (acc * 10) + ValorDigito(Head(s)))

\* the value a reader of the request finds in its Content-Length header; -1
\* when the request has no such header
ContentLength(headers) ==
  LET n == Len(HeaderContentLength)
      inicios == {i \in 1 .. (Len(headers) - n + 1) :
                    SubSeq(headers, i, i + n - 1) = HeaderContentLength}
  IN IF inicios = {} THEN -1
     ELSE LET i == CHOOSE i \in inicios : \A j \in inicios : i <= j
          IN ValorDecimal(SubSeq(headers, i + n, Len(headers)), 0)

\* the operations of a send that connected, in the order of the source
OrdemDoEnvio ==
  << "drena", "AT+CIPCLOSE", "AT+CIPSSLSIZE=4096", "AT+CIPSTART", "CONNECT",
     "AT+CIPSEND", "headers", "json" >>

\* C22: a send that saw CONNECT has issued, for its event and in this order,
\* the drain of the inbound bytes, AT+CIPCLOSE, AT+CIPSSLSIZE, AT+CIPSTART, the
\* CONNECT poll, AT+CIPSEND, the headers and the JSON body; the number
\* announced by AT+CIPSEND is the number of header bytes plus body bytes
\* written after it, the headers end with an empty line, and the value of
\* their Content-Length header is the number of bytes of the body.
C22_OrdemETamanhoDoEnvio ==
  \A k \in PosWifi("CONNECT") :
    /\ k >= 5
    /\ k + 3 <= Len(serialWifi)
    /\ \A j \in 1 .. 8 :
         /\ serialWifi[k - 5 + j].op = OrdemDoEnvio[j]
         /\ serialWifi[k - 5 + j].ev = serialWifi[k].ev
    /\ LET ev == serialWifi[k].ev
           jsonDados == JsonDoEvento(ev)
           headers == Headers(jsonDados)
       IN /\ serialWifi[k + 1].bytes = serialWifi[k + 2].bytes + serialWifi[k + 3].bytes
          /\ serialWifi[k + 2].bytes = Len(headers)
          /\ serialWifi[k + 3].bytes = Len(jsonDados)
          /\ serialWifi[k + 3].bytes > 0
          /\ ContentLength(headers) = serialWifi[k + 3].bytes
          /\ SubSeq(headers, Len(headers) - 3, Len(headers)) = CRLF \o CRLF
          /\ SubSeq(headers, 1, Len(HeaderPost)) = HeaderPost

\* C22 witness: the retrieval of the key of pin 25 under the session of card
\* 04A1B2C3 was sent: 220 bytes announced, 135 of headers and 85 of body
C22_Witness ==
  /\ Len(serialWifi) = 8
  /\ serialWifi[8].op = "json"
  /\ serialWifi[8].ev = Ev("RETIRADA_AUTORIZADA", PINO_CHAVE_INICIO, TagDoUID(<<4, 161, 178, 195>>), "RFID")
  /\ serialWifi[6].bytes = 220
  /\ serialWifi[7].bytes = 135
  /\ serialWifi[8].bytes = 85


\* C23: the snapshot of the key slots starts as the levels setup() read from the
\* pins: until a slot has been polled for the first time its snapshot is that
\* reading, and its first poll logs nothing (no theft, retrieval or return, no
\* alarm output, no send) when it reads the level of power-up again, a key
\* absent since power-up included; it logs exactly one event, of that slot,
\* when the level has changed since start-up.
C23_SnapshotDaPartida ==
  /\ [](\A i \in DOMAIN leiturasSetup : estadoAnteriorChaves[i] = leiturasSetup[i])
  /\ [][ pc = "monitor" /\ index \in DOMAIN leiturasSetup =>
           IF leituraAtual' = leiturasSetup[index]
           THEN /\ NovosEventos = <<>>
                /\ ~alarme'
                /\ serialWifi' = serialWifi
                /\ estadoAnteriorChaves' = estadoAnteriorChaves
                /\ index \notin DOMAIN leiturasSetup'
           ELSE /\ Len(NovosEventos) = 1
                /\ NovosEventos[1].pino = Pino(index)
                /\ NovosEventos[1].evento \in {"ALARME_ROUBO", "RETIRADA_AUTORIZADA", "DEVOLUCAO"}
       ]_vars
  /\ [][ \A i \in Indices :
           /\ i \in DOMAIN leiturasSetup' => i \in DOMAIN leiturasSetup
           /\ i \in DOMAIN leiturasSetup /\ i \notin DOMAIN leiturasSetup' =>
                pc \in {"monitor", "alarme"} /\ index = i
       ]_vars

\* the first sweep of the panel has polled the first slot, whose key was absent
\* at power-up and still is, and nothing was logged or sent for it
C23_Witness ==
  /\ pc = "monitor"
  /\ index = 1
  /\ DOMAIN leiturasSetup = {1}
  /\ estadoAnteriorChaves[0]
  /\ leituraAtual
  /\ EventosDeChave = <<>>
  /\ serialWifi = <<>>
  /\ ~alarme

====
